---- MODULE Spec2Model ----
(***************************************************************************)
(* Model of elastalert_modules/feishu_alert_annotation.py: the FeishuAlert *)
(* alerter (construction, get_info, get_rule, _flatten_dict, _safe_format, *)
(* alert).                                                                 *)
(*                                                                         *)
(* Data representation.                                                    *)
(*  - A Python str is a sequence of symbols.  The symbols "{", "}", ".",   *)
(*    ":", "'", "[", "]", " " and the digits are those characters; every   *)
(*    other symbol (such as "host" or "Status") stands for one character   *)
(*    that is none of these.                                               *)
(*  - A Python dict is a sequence of entries [k |-> key, v |-> value] with *)
(*    pairwise distinct keys, in insertion order (dicts iterate in         *)
(*    insertion order).                                                    *)
(*  - A Python value is a tagged record: str, int, None, list or dict.     *)
(***************************************************************************)
EXTENDS Integers, Sequences, FiniteSets, TLC

VARIABLES
    rule,   \* the rule mapping handed to __init__ (NoRule before construction)
    obj,    \* the FeishuAlert object: its state (none, ready, failed) and attributes
    call,   \* what the call in progress or just returned did (Idle when none)
    arg,    \* argument of the helper under study (_flatten_dict / _safe_format)
    ret     \* its result (NoRet before the call)

vars == <<rule, obj, call, arg, ret>>

----------------------------------------------------------------------------
(* Python values *)

VStr(s)  == [t |-> "str", s |-> s]
VInt(n)  == [t |-> "int", n |-> n]
VNone    == [t |-> "none"]
VList(x) == [t |-> "list", xs |-> x]
VDict(d) == [t |-> "dict", d |-> d]

\* isinstance(v, dict)
IsDict(v) == v.t = "dict"

E(k, v) == [k |-> k, v |-> v]

----------------------------------------------------------------------------
(* dict operations *)

KeysOf(d) == {d[i].k : i \in 1..Len(d)}

\* key in d
Has(d, k) == k \in KeysOf(d)

IndexOf(d, k) == CHOOSE i \in 1..Len(d) : d[i].k = k

\* d[k]
Get(d, k) == d[IndexOf(d, k)].v

\* d.get(k, default)
GetDefault(d, k, default) == IF Has(d, k) THEN Get(d, k) ELSE default

\* d[k] = v : an existing key keeps its position, a new key goes last
Put(d, k, v) ==
    IF Has(d, k) THEN [d EXCEPT ![IndexOf(d, k)].v = v]
                 ELSE Append(d, E(k, v))

\* d.update(e)
RECURSIVE Update(_, _)
Update(d, e) ==
    IF e = << >> THEN d
    ELSE Update(Put(d, Head(e).k, Head(e).v), Tail(e))

\* d.setdefault(k, v)
SetDefault(d, k, v) == IF Has(d, k) THEN d ELSE Append(d, E(k, v))

----------------------------------------------------------------------------
(* _flatten_dict , lines 50-59 *)

Sep == <<".">>

\* a flattening that forgets the keys above the entry
NewKeyChildOnly(parent_key, sep, k) == k

\* new_key = f"{parent_key}{sep}{k}" if parent_key else k
NewKey(parent_key, sep, k) ==
    IF parent_key # << >> THEN parent_key \o sep \o k ELSE k

RECURSIVE flatten_items(_, _, _, _)
RECURSIVE flatten_dict(_, _, _)

\* the for loop of _flatten_dict over d.items(), from items collected so far
flatten_items(d, parent_key, sep, items) ==
    IF d = << >> THEN items
    ELSE LET k == Head(d).k
             v == Head(d).v
             new_key == NewKey(parent_key, sep, k)
         IN  flatten_items(Tail(d), parent_key, sep,
                 IF IsDict(v)
                 THEN Update(items, flatten_dict(v.d, new_key, sep))
                 ELSE Put(items, new_key, v))

flatten_dict(d, parent_key, sep) == flatten_items(d, parent_key, sep, << >>)

----------------------------------------------------------------------------
(* Inputs of _flatten_dict: the caller assembles a nested mapping of at    *)
(* most MaxEntries entries in all (at any depth), entry by entry, and then *)
(* flattens it.  Keys and leaves are drawn from FlatKeys and FlatLeaves;   *)
(* a key may hold the separator or be empty, as a JSON key may.            *)

MaxEntries == 3

FlatKeys == { <<"host">>, <<"name">>, <<"host", ".", "name">>, << >> }

\* an int, a str, None and a list that holds a mapping
FlatLeaves ==
    { VInt(1), VStr(<<"a">>), VNone, VList(<<VDict(<<E(<<"name">>, VInt(1))>>)>>) }

\* the entries of d at every depth
RECURSIVE TotalEntries(_)
TotalEntries(d) ==
    IF d = << >> THEN 0
    ELSE 1 + (IF IsDict(Head(d).v) THEN TotalEntries(Head(d).v.d) ELSE 0)
           + TotalEntries(Tail(d))

\* the key paths that lead to a mapping inside d, d itself included
RECURSIVE DictPaths(_)
DictPaths(d) ==
    {<< >>} \cup UNION { { <<d[i].k>> \o p : p \in DictPaths(d[i].v.d) } :
                          i \in {j \in 1..Len(d) : IsDict(d[j].v)} }

\* the mapping inside d that path leads to
RECURSIVE DictAt(_, _)
DictAt(d, path) ==
    IF path = << >> THEN d ELSE DictAt(Get(d, Head(path)).d, Tail(path))

\* d with the entry k: v added last in the mapping that path leads to
RECURSIVE InsertAt(_, _, _, _)
InsertAt(d, path, k, v) ==
    IF path = << >> THEN Append(d, E(k, v))
    ELSE [d EXCEPT ![IndexOf(d, Head(path))].v =
             VDict(InsertAt(@.d, Tail(path), k, v))]

NoRule == [t |-> "norule"]
Idle   == [pc |-> "idle"]
NoRet  == [t |-> "noret"]

InitFlatten ==
    /\ rule = NoRule /\ obj = [st |-> "none"] /\ call = Idle
    /\ arg = << >>
    /\ ret = NoRet

\* the caller adds one entry to the mapping it will flatten
AddEntry(path, k, v) ==
    /\ ret = NoRet
    /\ TotalEntries(arg) < MaxEntries
    /\ path \in DictPaths(arg)
    /\ ~Has(DictAt(arg, path), k)
    /\ arg' = InsertAt(arg, path, k, v)
    /\ UNCHANGED <<rule, obj, call, ret>>

\* self._flatten_dict(d) with the default parent_key='' and sep='.'
CallFlatten ==
    /\ ret = NoRet
    /\ ret' = [t |-> "flat", items |-> flatten_dict(arg, << >>, Sep)]
    /\ UNCHANGED <<rule, obj, call, arg>>

NextFlatten ==
    \/ \E path \in DictPaths(arg), k \in FlatKeys, v \in FlatLeaves \cup {VDict(<< >>)} :
          AddEntry(path, k, v)
    \/ CallFlatten

SpecFlatten == InitFlatten /\ [][NextFlatten]_vars

----------------------------------------------------------------------------
(* str(value), as the fallback of _safe_format (line 74) and format() with *)
(* an empty format spec apply it.                                          *)

Digit(n) == <<"0", "1", "2", "3", "4", "5", "6", "7", "8", "9">>[n + 1]

RECURSIVE Digits(_)
Digits(n) == IF n < 10 THEN <<Digit(n)>> ELSE Append(Digits(n \div 10), Digit(n % 10))

RECURSIVE Repr(_)
RECURSIVE ReprList(_)
RECURSIVE ReprItems(_)

\* repr(value)
Repr(v) ==
    CASE v.t = "str"  -> <<"'">> \o v.s \o <<"'">>
      [] v.t = "int"  -> IF v.n < 0 THEN <<"-">> \o Digits(0 - v.n) ELSE Digits(v.n)
      [] v.t = "none" -> <<"None">>
      [] v.t = "list" -> <<"[">> \o ReprList(v.xs) \o <<"]">>
      [] v.t = "dict" -> <<"{">> \o ReprItems(v.d) \o <<"}">>

ReprList(xs) ==
    IF xs = << >> THEN << >>
    ELSE Repr(Head(xs)) \o (IF Len(xs) > 1 THEN <<",", " ">> ELSE << >>) \o ReprList(Tail(xs))

ReprItems(d) ==
    IF d = << >> THEN << >>
    ELSE <<"'">> \o Head(d).k \o <<"'", ":", " ">> \o Repr(Head(d).v)
         \o (IF Len(d) > 1 THEN <<",", " ">> ELSE << >>) \o ReprItems(Tail(d))

\* str(value)
Str(v) == IF v.t = "str" THEN v.s ELSE Repr(v)

----------------------------------------------------------------------------
(* str.format with data as keyword arguments, line 69: CPython's scan of   *)
(* the format string.  Templates                                           *)
(* of the model hold no "[", ":" or "!" between braces, and no symbol of   *)
(* the model names an attribute of str, int, None or list.                 *)

Ok(out)    == [exc |-> "none", out |-> out]
Exc(name)  == [exc |-> name, out |-> << >>]

IsDigit(c) == c \in {"0", "1", "2", "3", "4", "5", "6", "7", "8", "9"}

\* position of the "}" closing the field that starts at i; 0 when a "{" or
\* the end of the string comes first
RECURSIVE FieldEnd(_, _)
FieldEnd(text, i) ==
    IF i > Len(text) THEN 0
    ELSE IF text[i] = "{" THEN 0
    ELSE IF text[i] = "}" THEN i
    ELSE FieldEnd(text, i + 1)

\* position of the first "." of name at or after i, Len(name) + 1 when none
RECURSIVE DotAt(_, _)
DotAt(name, i) ==
    IF i > Len(name) THEN i
    ELSE IF name[i] = "." THEN i
    ELSE DotAt(name, i + 1)

\* looks a replacement field up in the keyword arguments
ResolveField(name, data) ==
    LET d     == DotAt(name, 1)
        first == SubSeq(name, 1, d - 1)
        rest  == SubSeq(name, d + 1, Len(name))
        attr  == SubSeq(rest, 1, DotAt(rest, 1) - 1)
    IN  IF first = << >> \/ (\A i \in 1..Len(first) : IsDigit(first[i]))
        THEN [exc |-> "IndexError"]
        ELSE IF ~Has(data, first) THEN [exc |-> "KeyError"]
        ELSE IF d > Len(name) THEN [exc |-> "none", v |-> Get(data, first)]
        ELSE IF attr = << >> THEN [exc |-> "ValueError"]
        ELSE [exc |-> "AttributeError"]

RECURSIVE FormatFrom(_, _, _, _)
FormatFrom(text, i, data, acc) ==
    IF i > Len(text) THEN Ok(acc)
    ELSE IF text[i] = "}"
    THEN IF i < Len(text) /\ text[i + 1] = "}"
         THEN FormatFrom(text, i + 2, data, Append(acc, "}"))
         ELSE Exc("ValueError")
    ELSE IF text[i] = "{"
    THEN IF i = Len(text) THEN Exc("ValueError")
         ELSE IF text[i + 1] = "{"
         THEN FormatFrom(text, i + 2, data, Append(acc, "{"))
         ELSE LET j == FieldEnd(text, i + 1)
              IN  IF j = 0 THEN Exc("ValueError")
                  ELSE LET r == ResolveField(SubSeq(text, i + 1, j - 1), data)
                       IN  IF r.exc # "none" THEN Exc(r.exc)
                           ELSE FormatFrom(text, j + 1, data, acc \o Str(r.v))
    ELSE FormatFrom(text, i + 1, data, Append(acc, text[i]))

Format(text, data) == FormatFrom(text, 1, data, << >>)

\* text.replace(old, new), old not empty
RECURSIVE Replace(_, _, _)
Replace(text, old, new) ==
    IF Len(text) < Len(old) THEN text
    ELSE IF SubSeq(text, 1, Len(old)) = old
    THEN new \o Replace(SubSeq(text, Len(old) + 1, Len(text)), old, new)
    ELSE <<Head(text)>> \o Replace(Tail(text), old, new)

\* the loop of lines 72-74 over data.items()
RECURSIVE ReplaceKeys(_, _)
ReplaceKeys(text, data) ==
    IF data = << >> THEN text
    ELSE ReplaceKeys(Replace(text, <<"{">> \o Head(data).k \o <<"}">>, Str(Head(data).v)),
                     Tail(data))

\* _safe_format, lines 65-78: what it raises, returns and logs
safe_format(text, data) ==
    LET r == Format(text, data)
    IN  IF r.exc = "none"
        THEN [raised |-> "none", text |-> r.out, log |-> << >>]
        ELSE IF r.exc = "KeyError"
        THEN [raised |-> "none", text |-> ReplaceKeys(text, data), log |-> << >>]
        ELSE [raised |-> "none", text |-> text,
              log |-> <<[level |-> "warning", msg |-> "Format error", exc |-> r.exc]>>]

----------------------------------------------------------------------------
(* Inputs of _safe_format: templates of at most MaxPieces pieces, against  *)
(* the contexts FormatContexts.                                            *)

MaxPieces == 3

FormatPieces ==
    { <<"{", "a", "}">>, <<"{", "b", "}">>, <<"{", "c", "}">>,
      <<"{", "a", ".", "b", "}">>, <<"w">>, <<"{">>, <<"}">>, <<"{", "}">> }

RECURSIVE TemplatesOf(_)
TemplatesOf(n) ==
    IF n = 0 THEN {<< >>}
    ELSE {p \o t : p \in FormatPieces, t \in TemplatesOf(n - 1)}

FormatTemplates == UNION {TemplatesOf(n) : n \in 0..MaxPieces}

FormatContexts ==
    { << >>,
      <<E(<<"a">>, VStr(<<"x">>))>>,
      <<E(<<"a">>, VInt(502))>>,
      <<E(<<"a">>, VStr(<<"x">>)), E(<<"b">>, VStr(<<"y">>))>>,
      <<E(<<"a">>, VStr(<<"{", "b", "}">>)), E(<<"b">>, VStr(<<"y">>))>>,
      <<E(<<"b">>, VStr(<<"y">>)), E(<<"a">>, VStr(<<"{", "b", "}">>))>>,
      <<E(<<"a", ".", "b">>, VStr(<<"x">>))>>,
      <<E(<<"a">>, VNone), E(<<"a", ".", "b">>, VStr(<<"x">>))>>,
      <<E(<<"a">>, VStr(<<"x">>)), E(<<"b">>, VStr(<<"y">>)), E(<<"c">>, VInt(1))>>,
      <<E(<<"b">>, VList(<<VInt(1), VStr(<<"y">>)>>))>> }

InitFormat ==
    /\ rule = NoRule /\ obj = [st |-> "none"] /\ call = Idle
    /\ arg \in [text : FormatTemplates, data : FormatContexts]
    /\ ret = NoRet

\* self._safe_format(text, data)
CallFormat ==
    /\ ret = NoRet
    /\ ret' = [t |-> "fmt"] @@ safe_format(arg.text, arg.data)
    /\ UNCHANGED <<rule, obj, call, arg>>

NextFormat == CallFormat

SpecFormat == InitFormat /\ [][NextFormat]_vars

----------------------------------------------------------------------------
(* FeishuAlert.__init__ , lines 30-38 *)

K_botid == <<"feishualert_botid">>
K_title == <<"feishualert_title">>
K_body  == <<"feishualert_body">>
K_url   == <<"feishualert_url">>
K_skip  == <<"feishualert_skip">>
K_time  == <<"feishualert_time">>

DefaultUrl == <<"https://open.feishu.cn/open-apis/bot/v2/hook/">>

\* bool(value)
Truthy(v) ==
    CASE v.t = "str"  -> v.s # << >>
      [] v.t = "int"  -> v.n # 0
      [] v.t = "none" -> FALSE
      [] v.t = "list" -> v.xs # << >>
      [] v.t = "dict" -> v.d # << >>

\* a validation that is content with any one of the three options
AnySet(bot_id, title, body) == Truthy(bot_id) \/ Truthy(title) \/ Truthy(body)

\* all([self.bot_id, self.title, self.body])
AllSet(bot_id, title, body) == Truthy(bot_id) /\ Truthy(title) /\ Truthy(body)

\* the object __init__ leaves behind, or the exception it raises
init(r) ==
    LET url    == GetDefault(r, K_url, VStr(DefaultUrl))
        bot_id == GetDefault(r, K_botid, VStr(<< >>))
        title  == GetDefault(r, K_title, VStr(<< >>))
        body   == GetDefault(r, K_body, VStr(<< >>))
        skip   == GetDefault(r, K_skip, VDict(<< >>))
    IN  IF ~AllSet(bot_id, title, body)
        THEN [st |-> "failed", raised |-> "EAException",
              msg |-> "Configure botid|title|body is invalid"]
        ELSE [st |-> "ready", url |-> url, bot_id |-> bot_id, title |-> title,
              body |-> body, skip |-> skip]

----------------------------------------------------------------------------
(* FeishuAlert.alert , lines 81-143 *)

\* code point of a character of a time-of-day string
Ord(c) ==
    CASE c = "0" -> 48 [] c = "1" -> 49 [] c = "2" -> 50 [] c = "3" -> 51
      [] c = "4" -> 52 [] c = "5" -> 53 [] c = "6" -> 54 [] c = "7" -> 55
      [] c = "8" -> 56 [] c = "9" -> 57 [] c = ":" -> 58

\* a <= b on str: lexicographic by code point
RECURSIVE StrLeq(_, _)
StrLeq(a, b) ==
    IF a = << >> THEN TRUE
    ELSE IF b = << >> THEN FALSE
    ELSE IF Head(a) = Head(b) THEN StrLeq(Tail(a), Tail(b))
    ELSE Ord(Head(a)) < Ord(Head(b))

\* a silence check that takes a window with start > end to cross midnight
InSilenceAcrossMidnight(skip, now) ==
    /\ Has(skip.d, <<"start">>) /\ Has(skip.d, <<"end">>)
    /\ LET start == Get(skip.d, <<"start">>).s
           end   == Get(skip.d, <<"end">>).s
       IN  IF StrLeq(start, end)
           THEN StrLeq(start, now) /\ StrLeq(now, end)
           ELSE StrLeq(start, now) \/ StrLeq(now, end)

\* lines 86-87: both ends configured and start <= now <= end
InSilence(skip, now) ==
    /\ Has(skip.d, <<"start">>) /\ Has(skip.d, <<"end">>)
    /\ StrLeq(Get(skip.d, <<"start">>).s, now)
    /\ StrLeq(now, Get(skip.d, <<"end">>).s)

\* lines 94-98: {"feishualert_title": ..., "feishualert_time": ..., **self.rule}
BaseData(self, r, alert_time) ==
    Update(<<E(K_title, self.title), E(K_time, VStr(alert_time))>>, r)

K_hostname  == <<"host", ".", "name">>
K_host_name == <<"host_name">>
K_attime    == <<"@timestamp">>
K_timestamp == <<"timestamp">>

\* defaults that do not look at host_name
FlatMatchNoHostName(match, alert_time) ==
    LET flat == flatten_dict(match, << >>, Sep)
        h    == SetDefault(flat, K_hostname, VStr(<<"N/A">>))
    IN  SetDefault(h, K_attime, GetDefault(h, K_timestamp, VStr(alert_time)))

\* lines 105-109: the first match flattened, with the two defaults
FlatMatch(match, alert_time) ==
    LET flat == flatten_dict(match, << >>, Sep)
        h    == SetDefault(flat, K_hostname,
                           GetDefault(flat, K_host_name, VStr(<<"N/A">>)))
    IN  SetDefault(h, K_attime, GetDefault(h, K_timestamp, VStr(alert_time)))

\* defaults applied to an empty match sequence too
MatchDataAlways(matches, alert_time) ==
    FlatMatch(IF matches # << >> THEN matches[1] ELSE << >>, alert_time)

\* lines 103-111: what merge_data.update receives
MatchData(matches, alert_time) ==
    IF matches # << >> THEN FlatMatch(matches[1], alert_time) ELSE << >>

\* a merge in which the rule's value wins over the match's
MergeDataRuleWins(self, r, matches, alert_time) ==
    Update(MatchData(matches, alert_time), BaseData(self, r, alert_time))

\* lines 94-111
MergeData(self, r, matches, alert_time) ==
    Update(BaseData(self, r, alert_time), MatchData(matches, alert_time))

\* lines 115-119: formatted_body and what is logged
RenderBody(body, merge_data) ==
    LET f == safe_format(body, merge_data)
    IN  IF f.raised = "none"
        THEN [text |-> f.text, log |-> f.log]
        ELSE [text |-> <<"?? Format error: ", f.raised, "\nRaw message:\n">> \o body,
              log |-> f.log \o <<[level |-> "error", msg |-> "Failed to format alert",
                                  exc |-> f.raised]>>]

\* lines 123-128
Message(formatted_body) ==
    [msg_type |-> "text", content |-> [text |-> formatted_body]]

Timeout == 10

\* lines 135-140: the request handed to requests.post
Request(self, message) ==
    [url |-> Str(self.url) \o Str(self.bot_id), json |-> message,
     headers |-> [ContentType |-> "application/json"], timeout |-> Timeout]

\* outcomes of requests.post followed by raise_for_status
HttpOutcomes == {"2xx", "5xx", "timeout"}

\* a send that lets the requests exception through
SendUnwrapped(self, message, http) ==
    [posts  |-> <<Request(self, message)>>,
     raised |-> IF http = "2xx" THEN "none" ELSE "RequestException",
     msg    |-> ""]

\* a send that tries once more after a failure
SendRetry(self, message, http) ==
    [posts  |-> IF http = "2xx" THEN <<Request(self, message)>>
                ELSE <<Request(self, message), Request(self, message)>>,
     raised |-> IF http = "2xx" THEN "none" ELSE "EAException",
     msg    |-> IF http = "2xx" THEN "" ELSE "Feishu request failed"]

\* lines 134-143: the requests made and what alert raises
Send(self, message, http) ==
    [posts  |-> <<Request(self, message)>>,
     raised |-> IF http = "2xx" THEN "none" ELSE "EAException",
     msg    |-> IF http = "2xx" THEN "" ELSE "Feishu request failed"]

\* the whole of alert(matches) at time-of-day now on day date; the clock
\* reads the same second at line 85 and at line 93, and a call that is
\* skipped leaves the values it never computes empty
alert(self, r, matches, now, date, http) ==
    LET input == [op |-> "alert", matches |-> matches, now |-> now, http |-> http]
    IN  IF InSilence(self.skip, now)
        THEN [pc |-> "returned", input |-> input, skipped |-> TRUE, alert_time |-> << >>,
              merge_data |-> << >>, message |-> Message(<< >>), posts |-> << >>,
              raised |-> "none", msg |-> "",
              log |-> <<[level |-> "info", msg |-> "Skip match in silence time...",
                         exc |-> "none"]>>]
        ELSE LET alert_time == date \o <<" ">> \o now
                 merge_data == MergeData(self, r, matches, alert_time)
                 body       == RenderBody(self.body.s, merge_data)
                 message    == Message(body.text)
                 sent       == Send(self, message, http)
             IN  [pc |-> "returned", input |-> input, skipped |-> FALSE,
                  alert_time |-> alert_time, merge_data |-> merge_data,
                  message |-> message, posts |-> sent.posts,
                  raised |-> sent.raised, msg |-> sent.msg, log |-> body.log]

\* get_info, lines 41-42
get_info == [type |-> "FeishuAlert"]

\* get_rule, lines 45-46
get_rule(r) == r

----------------------------------------------------------------------------
(* Inputs of the dispatcher *)

\* an option the rule does not hold
Absent == [t |-> "absent"]

HMS(h1, h2, m1, m2) == <<h1, h2, ":", m1, m2, ":", "0", "0">>

\* readings of time.strftime("%H:%M:%S")
Nows == { HMS("0", "8", "0", "0"), HMS("2", "2", "0", "0"),
          HMS("2", "2", "3", "0"), HMS("2", "3", "3", "0") }

\* the day part of time.strftime("%Y-%m-%d %H:%M:%S")
Today == <<"2025-01-02">>

Window(start, end) ==
    VDict(<<E(<<"start">>, VStr(start)), E(<<"end">>, VStr(end))>>)

\* feishualert_skip: a window, one crossing midnight, one without "end"
Skips ==
    { Window(HMS("2", "2", "0", "0"), HMS("2", "3", "0", "0")),
      Window(HMS("2", "2", "0", "0"), HMS("0", "6", "0", "0")),
      VDict(<<E(<<"start">>, VStr(HMS("2", "2", "0", "0")))>>) }

Ph(key) == <<"{">> \o key \o <<"}">>

\* feishualert_body
Bodies ==
    { <<"Host: ">> \o Ph(K_hostname) \o <<" Status: ">> \o Ph(<<"status">>),
      Ph(K_title) \o <<" ">> \o Ph(K_time),
      Ph(<<"status">>) \o <<" ">> \o Ph(K_attime),
      Ph(<<"status">>) \o <<" ">> \o Ph(<<"nokey">>),
      Ph(<<"status">>) \o <<"}">>,
      <<"alert ", "{", "}">>,
      <<"alert">> }

\* the three required options: present and not empty, empty, None, absent
Required(bot, title, body) ==
    (IF bot = Absent THEN << >> ELSE <<E(K_botid, bot)>>)
    \o (IF title = Absent THEN << >> ELSE <<E(K_title, title)>>)
    \o (IF body = Absent THEN << >> ELSE <<E(K_body, body)>>)

\* the options a rule may hold besides: a url prefix and a key the match has too
Optional(custom, skip) ==
    (IF custom THEN <<E(K_url, VStr(<<"http://hook/">>)),
                      E(<<"status">>, VStr(<<"rule-status">>))>> ELSE << >>)
    \o (IF skip = Absent THEN << >> ELSE <<E(K_skip, skip)>>)

\* every body with every skip setting, and every body with the other options
ValidRules ==
    { Required(VStr(<<"B">>), VStr(<<"T">>), VStr(b)) \o Optional(FALSE, k) :
        b \in Bodies, k \in Skips \cup {Absent} }
    \cup { Required(VStr(<<"B">>), VStr(<<"T">>), VStr(b)) \o Optional(TRUE, Absent) :
             b \in Bodies }

BadValues == { Absent, VStr(<< >>), VNone }

\* at least one required option empty, None or absent
InvalidRules ==
    { Required(bot, title, body) \o Optional(c, Absent) :
        bot \in BadValues \cup {VStr(<<"B">>)},
        title \in BadValues \cup {VStr(<<"T">>)},
        body \in BadValues \cup {VStr(<<"alert">>)},
        c \in BOOLEAN }
    \ ValidRules

Rules == ValidRules \cup InvalidRules

MaxFields  == 2
MaxMatches == 2

\* the fields a match record is made of, in document order
Fields ==
    << E(<<"host">>, VDict(<<E(<<"name">>, VStr(<<"srv1">>))>>)),
       E(<<"host">>, VStr(<<"h0">>)),
       E(K_host_name, VStr(<<"hn">>)),
       E(K_timestamp, VStr(<<"ts">>)),
       E(K_attime, VStr(<<"ats">>)),
       E(<<"status">>, VInt(502)) >>

\* the fields of Fields numbered in S, in order
RECURSIVE Pick(_, _)
Pick(S, i) ==
    IF i > Len(Fields) THEN << >>
    ELSE (IF i \in S THEN <<Fields[i]>> ELSE << >>) \o Pick(S, i + 1)

Records ==
    { Pick(S, 1) : S \in { T \in SUBSET (1..Len(Fields)) :
                             /\ Cardinality(T) <= MaxFields
                             /\ \A i, j \in T : i # j => Fields[i].k # Fields[j].k } }

\* the records that follow the first one of a match sequence
LaterRecord == <<E(<<"status">>, VInt(7)), E(K_host_name, VStr(<<"other">>))>>

AllMatches ==
    {<< >>} \cup { <<rec>> \o [i \in 1..n |-> LaterRecord] :
                     rec \in Records, n \in 0..(MaxMatches - 1) }

----------------------------------------------------------------------------
(* The dispatcher and its host *)

Init ==
    /\ rule = NoRule
    /\ obj = [st |-> "none"]
    /\ call = Idle
    /\ arg = NoRet
    /\ ret = NoRet

\* FeishuAlert(rule)
Construct(r) ==
    /\ obj.st = "none"
    /\ rule' = r
    /\ obj' = init(r)
    /\ UNCHANGED <<call, arg, ret>>

\* the host calls alert(matches); the call runs to its return or raise
Alert(matches, now, http) ==
    /\ obj.st = "ready"
    /\ call = Idle
    /\ call' = alert(obj, rule, matches, now, Today, http)
    /\ UNCHANGED <<rule, obj, arg, ret>>

GetInfo ==
    /\ obj.st = "ready"
    /\ call = Idle
    /\ call' = [pc |-> "returned", input |-> [op |-> "get_info"], result |-> get_info]
    /\ UNCHANGED <<rule, obj, arg, ret>>

GetRule ==
    /\ obj.st = "ready"
    /\ call = Idle
    /\ call' = [pc |-> "returned", input |-> [op |-> "get_rule"], result |-> get_rule(rule)]
    /\ UNCHANGED <<rule, obj, arg, ret>>

\* the host takes the result (or the exception) and is free to call again
HostResumes ==
    /\ call # Idle
    /\ call' = Idle
    /\ UNCHANGED <<rule, obj, arg, ret>>

Next ==
    \/ \E r \in Rules : Construct(r)
    \/ \E m \in AllMatches, now \in Nows, http \in HttpOutcomes : Alert(m, now, http)
    \/ GetInfo
    \/ GetRule
    \/ HostResumes

Spec == Init /\ [][Next]_vars

----------------------------------------------------------------------------
(* Reference notions the claims are stated with.  None of them is used by  *)
(* the model of the code above.                                            *)

AlertDone == call.pc = "returned" /\ call.input.op = "alert"

\* the non-mapping leaves of a nested mapping, in iteration order, each with
\* the keys that lead to it
RECURSIVE LeavesOf(_, _)
LeavesOf(d, prefix) ==
    IF d = << >> THEN << >>
    ELSE (IF IsDict(Head(d).v)
          THEN LeavesOf(Head(d).v.d, Append(prefix, Head(d).k))
          ELSE <<[path |-> Append(prefix, Head(d).k), v |-> Head(d).v]>>)
         \o LeavesOf(Tail(d), prefix)

\* a key path joined with "."
RECURSIVE JoinDots(_)
JoinDots(path) ==
    IF Len(path) = 1 THEN path[1]
    ELSE path[1] \o <<".">> \o JoinDots(Tail(path))

\* a key path without the empty keys it starts with (its last key is kept)
RECURSIVE DropEmptyStart(_)
DropEmptyStart(path) ==
    IF Len(path) > 1 /\ Head(path) = << >> THEN DropEmptyStart(Tail(path)) ELSE path

\* the key the code gives a leaf
LeafKey(path) == JoinDots(DropEmptyStart(path))

\* the value of the last leaf of L, in iteration order, whose key is key
LastLeaf(L, key) ==
    L[CHOOSE j \in 1..Len(L) :
        /\ LeafKey(L[j].path) = key
        /\ \A i \in (j + 1)..Len(L) : LeafKey(L[i].path) # key].v

FlatDone == ret.t = "flat"

\* a template made of plain text and placeholders {key}, key not empty:
\* position i is outside a placeholder
RECURSIVE WellFormedFrom(_, _)
WellFormedFrom(text, i) ==
    IF i > Len(text) THEN TRUE
    ELSE IF text[i] = "}" THEN FALSE
    ELSE IF text[i] = "{"
    THEN LET j == FieldEnd(text, i + 1)
         IN  j > i + 1 /\ WellFormedFrom(text, j + 1)
    ELSE WellFormedFrom(text, i + 1)

WellFormed(text) == WellFormedFrom(text, 1)

\* the keys the placeholders of a well-formed template name
RECURSIVE PlaceholderKeys(_, _)
PlaceholderKeys(text, i) ==
    IF i > Len(text) THEN {}
    ELSE IF text[i] = "{"
    THEN LET j == FieldEnd(text, i + 1)
         IN  {SubSeq(text, i + 1, j - 1)} \cup PlaceholderKeys(text, j + 1)
    ELSE PlaceholderKeys(text, i + 1)

\* a well-formed template with every placeholder whose key is in data
\* replaced by the string form of its value, the others left as they are
RECURSIVE Substituted(_, _, _)
Substituted(text, i, data) ==
    IF i > Len(text) THEN << >>
    ELSE IF text[i] = "{"
    THEN LET j   == FieldEnd(text, i + 1)
             key == SubSeq(text, i + 1, j - 1)
         IN  (IF Has(data, key) THEN Str(Get(data, key)) ELSE SubSeq(text, i, j))
             \o Substituted(text, j + 1, data)
    ELSE <<text[i]>> \o Substituted(text, i + 1, data)

\* the orders in which the entries of a mapping can be scanned
Orderings(d) ==
    { [i \in 1..Len(d) |-> d[f[i]]] :
        f \in { g \in [1..Len(d) -> 1..Len(d)] :
                  \A a, b \in 1..Len(d) : a # b => g[a] # g[b] } }

\* seconds since midnight of a time-of-day string HH:MM:SS
TimeValue(t) ==
    LET n(i) == Ord(t[i]) - Ord("0")
    IN  ((n(1) * 10 + n(2)) * 60 + n(4) * 10 + n(5)) * 60 + n(7) * 10 + n(8)

\* the configured value of an option of the rule
Configured(k) == Has(rule, k) /\ Get(rule, k) \notin {VStr(<< >>), VNone}

RuleSkip == IF Has(rule, K_skip) THEN Get(rule, K_skip).d ELSE << >>

RuleBody == Get(rule, K_body).s

\* <url-prefix><bot-id> of the rule
HookUrl ==
    (IF Has(rule, K_url) THEN Get(rule, K_url).s ELSE DefaultUrl)
    \o Get(rule, K_botid).s

\* the flattened first match of the call with its two defaults: its keys,
\* and the value of one of them
FirstLeaves == LeavesOf(call.input.matches[1], << >>)

FirstKeys == {LeafKey(FirstLeaves[j].path) : j \in 1..Len(FirstLeaves)}

ContextKeys ==
    IF call.input.matches = << >> THEN {}
    ELSE FirstKeys \cup {K_hostname, K_attime}

ContextValue(k) ==
    IF k \in FirstKeys THEN LastLeaf(FirstLeaves, k)
    ELSE IF k = K_hostname
    THEN (IF K_host_name \in FirstKeys THEN LastLeaf(FirstLeaves, K_host_name)
          ELSE VStr(<<"N/A">>))
    ELSE (IF K_timestamp \in FirstKeys THEN LastLeaf(FirstLeaves, K_timestamp)
          ELSE VStr(call.alert_time))

----------------------------------------------------------------------------
(* The claims *)

C3_ConstructionValidates ==
    /\ obj.st # "none" =>
          (obj.st = "failed" <=>
              ~(Configured(K_botid) /\ Configured(K_title) /\ Configured(K_body)))
    /\ call # Idle =>
          /\ obj.st = "ready"
          /\ Configured(K_botid) /\ Configured(K_title) /\ Configured(K_body)

\* a construction that failed on a missing body, the other options given
C3_Witness ==
    /\ obj.st = "failed"
    /\ ~Has(rule, K_body)
    /\ Configured(K_botid) /\ Configured(K_title) /\ Has(rule, K_url)

\* C4: a dispatch call the skip window does not suppress makes exactly one
\* POST, to <url-prefix><bot-id>, whatever the body and the match are, and
\* ends sent or failed after it.
C4_ExactlyOnePost ==
    (AlertDone /\ ~call.skipped) =>
        /\ Len(call.posts) = 1
        /\ call.posts[1].url = HookUrl
        /\ call.raised = (IF call.input.http = "2xx" THEN "none" ELSE "EAException")

\* a failed send of a body that could not be rendered, to a configured prefix
C4_Witness ==
    /\ AlertDone /\ ~call.skipped
    /\ Has(rule, K_url)
    /\ call.input.http = "5xx"
    /\ Len(call.posts) = 1

\* C5: safe rendering of a template with a placeholder whose key is not in
\* the context does not raise and returns the template with the placeholders
\* of known keys replaced by the string form of their values and the others
\* left literal, whatever the order the context keys are scanned in.
C5_FallbackSubstitutes ==
    (/\ ret.t = "fmt"
     /\ WellFormed(arg.text)
     /\ \E k \in PlaceholderKeys(arg.text, 1) : ~Has(arg.data, k))
    => /\ ret.raised = "none"
       /\ ret.text = Substituted(arg.text, 1, arg.data)
       /\ \A d \in Orderings(arg.data) : safe_format(arg.text, d).text = ret.text

\* C6: when every placeholder of the body names a key of the merge context,
\* the message posted is {msg_type: "text", content: {text: t}} with t the
\* body with each placeholder replaced by the value of its key.
C6_EndToEnd ==
    (/\ AlertDone /\ ~call.skipped
     /\ WellFormed(RuleBody)
     /\ PlaceholderKeys(RuleBody, 1) \subseteq KeysOf(call.merge_data))
    => /\ Len(call.posts) = 1
       /\ call.posts[1].json =
              [msg_type |-> "text",
               content |-> [text |-> Substituted(RuleBody, 1, call.merge_data)]]

\* C7, as claimed: flattening returns a single-level mapping with exactly
\* one entry per non-mapping leaf, keyed by the leaf's key path joined with
\* "." and holding its value; a single-level mapping comes back unchanged.
C7_OneEntryPerLeaf ==
    FlatDone =>
        LET L == LeavesOf(arg, << >>)
        IN  /\ \A i \in 1..Len(ret.items) : ~IsDict(ret.items[i].v)
            /\ Len(ret.items) = Len(L)
            /\ \A j \in 1..Len(L) :
                  /\ Has(ret.items, JoinDots(L[j].path))
                  /\ Get(ret.items, JoinDots(L[j].path)) = L[j].v
            /\ (\A i \in 1..Len(arg) : ~IsDict(arg[i].v)) => ret.items = arg

\* C7, amended: flattening returns a single-level mapping whose keys are the
\* key paths of the non-mapping leaves joined with "." (the empty keys a
\* path starts with are left out, with their separators), one entry per
\* distinct key, holding the value of the last leaf, in iteration order, that
\* has the key; a single-level mapping comes back unchanged.
C7_OneEntryPerLeafKey ==
    FlatDone =>
        LET L == LeavesOf(arg, << >>)
        IN  /\ \A i \in 1..Len(ret.items) : ~IsDict(ret.items[i].v)
            /\ Cardinality(KeysOf(ret.items)) = Len(ret.items)
            /\ KeysOf(ret.items) = {LeafKey(L[j].path) : j \in 1..Len(L)}
            /\ \A k \in KeysOf(ret.items) : Get(ret.items, k) = LastLeaf(L, k)
            /\ (\A i \in 1..Len(arg) : ~IsDict(arg[i].v)) => ret.items = arg

\* two leaves, one of them nested, that flatten to the same key
C7_Witness ==
    /\ FlatDone
    /\ LET L == LeavesOf(arg, << >>)
       IN  \E i, j \in 1..Len(L) :
              /\ i < j
              /\ Len(L[i].path) > 1
              /\ LeafKey(L[i].path) = LeafKey(L[j].path)
              /\ L[i].v # L[j].v

\* C8: a dispatch call with no match, outside the skip window, sends one
\* message, and its context holds the rule's keys and the two synthesized
\* keys only: neither the host.name nor the @timestamp default.
C8_EmptyMatches ==
    (AlertDone /\ ~call.skipped /\ call.input.matches = << >>) =>
        /\ Len(call.posts) = 1
        /\ KeysOf(call.merge_data) = KeysOf(rule) \cup {K_title, K_time}
        /\ \A k \in KeysOf(rule) : Get(call.merge_data, k) = Get(rule, k)
        /\ Get(call.merge_data, K_time) = VStr(call.alert_time)
        /\ K_hostname \notin KeysOf(call.merge_data)
        /\ K_attime \notin KeysOf(call.merge_data)

\* a message sent for no match, from a body that names host.name
C8_Witness ==
    /\ AlertDone /\ ~call.skipped
    /\ call.input.matches = << >>
    /\ K_hostname \in PlaceholderKeys(RuleBody, 1)
    /\ Len(call.posts) = 1

\* C9: the merge context is the union of the two synthesized keys, the
\* rule's keys and the flattened first match; a key of the flattened match
\* has the match's value; no later record contributes.
C9_MergeContext ==
    (AlertDone /\ ~call.skipped) =>
        /\ KeysOf(call.merge_data) = {K_title, K_time} \cup KeysOf(rule) \cup ContextKeys
        /\ \A k \in KeysOf(call.merge_data) :
              Get(call.merge_data, k) =
                  IF k \in ContextKeys THEN ContextValue(k)
                  ELSE IF Has(rule, k) THEN Get(rule, k)
                  ELSE VStr(call.alert_time)

\* a rule and a first match that both hold "status", and a later record
C9_Witness ==
    /\ AlertDone /\ ~call.skipped
    /\ Len(call.input.matches) > 1
    /\ Has(rule, <<"status">>)
    /\ <<"status">> \in FirstKeys
    /\ Get(call.merge_data, <<"status">>) # Get(rule, <<"status">>)

\* C10: with a first match, the context has host.name and @timestamp: the
\* match's own value when it has the key; otherwise host_name's value, or
\* "N/A", for host.name, and timestamp's value, or the send time, for
\* @timestamp.
C10_Defaults ==
    (AlertDone /\ ~call.skipped /\ call.input.matches # << >>) =>
        /\ Has(call.merge_data, K_hostname) /\ Has(call.merge_data, K_attime)
        /\ Get(call.merge_data, K_hostname) =
              IF K_hostname \in FirstKeys THEN LastLeaf(FirstLeaves, K_hostname)
              ELSE IF K_host_name \in FirstKeys THEN LastLeaf(FirstLeaves, K_host_name)
              ELSE VStr(<<"N/A">>)
        /\ Get(call.merge_data, K_attime) =
              IF K_attime \in FirstKeys THEN LastLeaf(FirstLeaves, K_attime)
              ELSE IF K_timestamp \in FirstKeys THEN LastLeaf(FirstLeaves, K_timestamp)
              ELSE VStr(call.alert_time)

\* host.name taken from host_name and @timestamp from the send time
C10_Witness ==
    /\ AlertDone /\ ~call.skipped /\ call.input.matches # << >>
    /\ K_hostname \notin FirstKeys /\ K_host_name \in FirstKeys
    /\ K_attime \notin FirstKeys /\ K_timestamp \notin FirstKeys
    /\ Get(call.merge_data, K_hostname) = VStr(<<"hn">>)
    /\ Get(call.merge_data, K_attime) = VStr(call.alert_time)

====
